---- MODULE Spec2Model ----
(***************************************************************************)
(* Deforestation-by-municipality pipeline                                  *)
(* (analise_desmatamento_municipios.py) and the year-column detection of   *)
(* the dashboard (app_dash.py).                                            *)
(*                                                                         *)
(* The pipeline is a script: one action per block of statements, run in    *)
(* program order under the program counter pc.  An uncaught Python         *)
(* exception moves pc to "error" and nothing runs after it.                *)
(*                                                                         *)
(* Representation                                                          *)
(*  - a str is the sequence of its characters;                             *)
(*  - a float64 is [k, n, d]: k = "num" is the rational n/d in lowest      *)
(*    terms, k = "inf" / "ninf" / "nan" are the IEEE specials; a null      *)
(*    of a numeric pandas column is NaN;                                   *)
(*  - a polygon is the set of coordinates it covers; the coordinate of a   *)
(*    ground cell depends on the CRS the layer is expressed in.            *)
(***************************************************************************)
EXTENDS Integers, Sequences, FiniteSets, TLC

\* ------------------------------------------------------------------ bounds
\* Largest number of polygons in the deforestation layer (wide layers).
MaxDesmat == 2
\* Largest number of rows of the indicator table (wide tables).
MaxIps == 2

\* --------------------------------------------------------- generic helpers
Range(s) == {s[i] : i \in 1..Len(s)}

RECURSIVE SeqSum(_)
SeqSum(s) == IF s = <<>> THEN 0 ELSE s[1] + SeqSum(Tail(s))

RECURSIVE Flatten(_)
Flatten(ss) == IF ss = <<>> THEN <<>> ELSE ss[1] \o Flatten(Tail(ss))

\* The finite set of integers S as an increasing sequence.
RECURSIVE SortInts(_)
SortInts(S) ==
    IF S = {} THEN <<>>
    ELSE LET m == CHOOSE x \in S : \A y \in S : x <= y
         IN  <<m>> \o SortInts(S \ {m})

\* All sequences over S of length 0..n.
SeqsUpTo(S, n) == UNION {[1..k -> S] : k \in 0..n}

\* ------------------------------------------------------------ Python str
Digits == {"0", "1", "2", "3", "4", "5", "6", "7", "8", "9"}
DigitChar(i) == <<"0", "1", "2", "3", "4", "5", "6", "7", "8", "9">>[i + 1]

\* str(i) of a non-negative int: its decimal digits.
RECURSIVE IntStr(_)
IntStr(i) == IF i < 10 THEN <<DigitChar(i)>>
             ELSE IntStr(i \div 10) \o <<DigitChar(i % 10)>>

\* Column names of the tables.
CD_MUN == <<"C","D","_","M","U","N">>
NM_MUN == <<"N","M","_","M","U","N">>
total_km2 == <<"t","o","t","a","l","_","k","m","2">>
area_municipio_km2 ==
    <<"a","r","e","a","_","m","u","n","i","c","i","p","i","o","_","k","m","2">>
desmat_prop == <<"d","e","s","m","a","t","_","p","r","o","p">>
\* The five indicator columns (accents dropped from the characters).
PIB == <<"P","I","B"," ","p","e","r"," ","c","a","p","i","t","a"," ","2","0","2","1">>
IPS == <<"I","n","d","i","c","e"," ","d","e"," ","P","r","o","g","r","e","s","s","o",
         " ","S","o","c","i","a","l">>
NHB == <<"N","e","c","e","s","s","i","d","a","d","e","s"," ","H","u","m","a","n","a","s",
         " ","B","a","s","i","c","a","s">>
FBE == <<"F","u","n","d","a","m","e","n","t","o","s"," ","d","o"," ","B","e","m","-",
         "e","s","t","a","r">>
OPO == <<"O","p","o","r","t","u","n","i","d","a","d","e","s">>

\* A column label of the in-memory pivot: a str, an int year or a float year.
StrLabel(s) == [t |-> "str", s |-> s, v |-> 0]
YearLabel(dtype, y) == [t |-> dtype, s |-> <<>>, v |-> y]

\* str(c) of a column label: 2020 -> "2020", 2020.0 -> "2020.0".
PyStr(c) == CASE c.t = "str" -> c.s
              [] c.t = "int" -> IntStr(c.v)
              [] c.t = "float" -> IntStr(c.v) \o <<".", "0">>

\* str.isdigit(): non-empty and every character a digit.
IsDigit(s) == Len(s) > 0 /\ \A i \in 1..Len(s) : s[i] \in Digits

\* re.match(r'^\d{4}\.0$', s)
MatchYearPattern(s) ==
    /\ Len(s) = 6
    /\ \A i \in 1..4 : s[i] \in Digits
    /\ s[5] = "."
    /\ s[6] = "0"

\* --------------------------------------------------------------- float64
RECURSIVE GCD(_, _)
GCD(a, b) == IF b = 0 THEN a ELSE GCD(b, a % b)
Abs(x) == IF x < 0 THEN -x ELSE x

NaN == [k |-> "nan", n |-> 0, d |-> 0]
PInf == [k |-> "inf", n |-> 0, d |-> 0]
NInf == [k |-> "ninf", n |-> 0, d |-> 0]
\* n/d with d > 0, in lowest terms.
Num(n, d) == LET g == GCD(Abs(n), d) IN [k |-> "num", n |-> n \div g, d |-> d \div g]
FInt(i) == Num(i, 1)
Zero == FInt(0)

IsNull(x) == x.k = "nan"
Neg(x) == CASE x.k = "num" -> Num(-x.n, x.d)
            [] x.k = "inf" -> NInf
            [] x.k = "ninf" -> PInf
            [] OTHER -> NaN

\* a - b
FSub(a, b) ==
    CASE a.k = "nan" \/ b.k = "nan" -> NaN
      [] a.k = "num" /\ b.k = "num" -> Num(a.n * b.d - b.n * a.d, a.d * b.d)
      [] a.k = "num" -> Neg(b)
      [] b.k = "num" -> a
      [] a.k = b.k -> NaN
      [] OTHER -> a

\* a / b, as numpy divides float64 arrays: never raises.
FDiv(a, b) ==
    CASE a.k = "nan" \/ b.k = "nan" -> NaN
      [] a.k = "num" /\ b.k = "num" ->
            IF b.n = 0
            THEN (IF a.n = 0 THEN NaN ELSE IF a.n > 0 THEN PInf ELSE NInf)
            ELSE (IF b.n > 0 THEN Num(a.n * b.d, a.d * b.n)
                  ELSE Num(-(a.n * b.d), a.d * (-b.n)))
      [] a.k = "num" -> Zero
      [] b.k = "num" -> IF b.n >= 0 THEN a ELSE Neg(a)
      [] OTHER -> NaN

\* a <= b for non-NaN values.
FLeq(a, b) ==
    CASE a.k = "ninf" \/ b.k = "inf" -> TRUE
      [] a.k = "inf" \/ b.k = "ninf" -> FALSE
      [] OTHER -> a.n * b.d <= b.n * a.d

\* Series.min() / Series.max(): NaN is skipped; NaN when nothing is left.
ColMin(vals) ==
    LET S == {x \in Range(vals) : ~IsNull(x)}
    IN  IF S = {} THEN NaN ELSE CHOOSE x \in S : \A y \in S : FLeq(x, y)
ColMax(vals) ==
    LET S == {x \in Range(vals) : ~IsNull(x)}
    IN  IF S = {} THEN NaN ELSE CHOOSE x \in S : \A y \in S : FLeq(y, x)

\* ------------------------------------------------------------ geography
\* The ground is a row of cells; a CRS places cell c at coordinate
\* c + CrsOffset(crs), so the same place has different coordinates in
\* different CRSs and coordinates of different CRSs never coincide.
Cells == 1..4
NoCRS == "None"
CrsOffset(crs) == CASE crs = "EPSG:4674" -> 0
                    [] crs = "EPSG:4326" -> 10
                    [] crs = "EPSG:5880" -> 20

\* GeoSeries.to_crs: the same places, in the coordinates of the target CRS.
Reproject(geom, from, to) == {c - CrsOffset(from) + CrsOffset(to) : c \in geom}

\* Ground area of each cell, in km2, and the m2 in a km2.
CellKm2 == <<3, 2, 1, 1>>
SqMPerKm2 == 1000000

\* GeoSeries.area of a geometry expressed in the equal-area CRS, in m2.
AreaM2(geom5880) ==
    LET cs == SortInts({c - CrsOffset("EPSG:5880") : c \in geom5880})
    IN  SeqSum([i \in 1..Len(cs) |-> CellKm2[cs[i]] * SqMPerKm2])

\* geometry.buffer(0): polygons are the cells they cover, a representation
\* without invalid rings, and repairing a valid polygon keeps what it covers.
Buffer0(geom) == geom

\* The municipalities that exist, in increasing order of code.
MunUniverse ==
    << [CD_MUN |-> "1500107", NM_MUN |-> "Abaetetuba", cells |-> {1, 2}],
       [CD_MUN |-> "1500131", NM_MUN |-> "Abel Figueiredo", cells |-> {3}] >>
Codes == {MunUniverse[i].CD_MUN : i \in 1..Len(MunUniverse)}
CodeRank(code) == CHOOSE i \in 1..Len(MunUniverse) : MunUniverse[i].CD_MUN = code

\* gpd.GeoDataFrame(): no column, no row, no CRS.
EmptyGDF == [cols |-> {}, crs |-> NoCRS, ydtype |-> "int", rows |-> <<>>]

\* A municipal boundary file in CRS crs holding the municipalities of
\* MunUniverse at the positions idx.
MunLayer(crs, idx) ==
    [cols |-> {"CD_MUN", "NM_MUN", "SIGLA_UF", "geometry"},
     crs |-> crs, ydtype |-> "int",
     rows |-> [i \in 1..Len(idx) |->
                 [CD_MUN |-> MunUniverse[idx[i]].CD_MUN,
                  NM_MUN |-> MunUniverse[idx[i]].NM_MUN,
                  geometry |-> IF crs = NoCRS THEN MunUniverse[idx[i]].cells
                               ELSE Reproject(MunUniverse[idx[i]].cells,
                                              "EPSG:4674", crs)]]]

\* A deforestation file: polys is a sequence of [state, year, cells]; the
\* year column has dtype ydtype; the identifier column is named idcol.
DesmatLayer(crs, ydtype, idcol, hasState, polys) ==
    [cols |-> {idcol, "year", "area_km", "geometry"}
                \cup (IF hasState THEN {"state"} ELSE {}),
     crs |-> crs, ydtype |-> ydtype,
     rows |-> [i \in 1..Len(polys) |->
                 [id_desmat |-> i, state |-> polys[i].state,
                  year |-> polys[i].year,
                  geometry |-> IF crs = NoCRS THEN polys[i].cells
                               ELSE Reproject(polys[i].cells, "EPSG:4674", crs)]]]

\* ------------------------------------------------------------- the state
VARIABLES
    pc,          \* the block of the script that runs next, "done" or "error"
    files,       \* the two shapefiles: [ok, layer] each; ok = it parses
    ipsFile,     \* rows of data/bronze/ips_brasil_municipios.csv
    gdf_desmat,  \* deforestation layer
    gdf_mun,     \* municipal layer
    gdf_inter,   \* Intersection Records
    df_pivot,    \* Bronze table in memory: [columns, rows]
    anos,        \* the labels the Aggregator took for year columns
    bronzeCsv,   \* data/bronze/desmatamento_municipio_ano.csv: [written, header, rows]
    df,          \* Silver table in memory: [columns, rows]
    silverCsv,   \* data/silver/municipios_analise.csv: [written, header]
    data_norm,   \* the min-max normalised analysis columns, one entry per row
    X,           \* data_norm.dropna(): the rows handed to StandardScaler and PCA
    dash_pc,     \* dashboard: "start" before its module code ran, then "ready"
    year_cols    \* dashboard: the columns it took for year columns

vars == <<pc, files, ipsFile, gdf_desmat, gdf_mun, gdf_inter, df_pivot, anos,
          bronzeCsv, df, silverCsv, data_norm, X, dash_pc, year_cols>>

NoTable == [columns |-> <<>>, rows |-> <<>>]
NoCsv == [written |-> FALSE, header |-> <<>>, rows |-> <<>>]

\* The state before the first statement runs, for given input files.
InitWith(Shapefiles, IpsTables) ==
    /\ pc = "load"
    /\ files \in Shapefiles
    /\ ipsFile \in IpsTables
    /\ gdf_desmat = EmptyGDF
    /\ gdf_mun = EmptyGDF
    /\ gdf_inter = <<>>
    /\ df_pivot = NoTable
    /\ anos = <<>>
    /\ bronzeCsv = NoCsv
    /\ df = NoTable
    /\ silverCsv = NoCsv
    /\ data_norm = <<>>
    /\ X = <<>>
    /\ dash_pc = "start"
    /\ year_cols = <<>>

\* ------------------------------------------------- 2. load (lines 41-46)
\* One try block around both reads: the first read that raises sends
\* control to the handler, which rebinds both names to empty layers.
ReadShapefilesPerSource(f) ==
    << IF f.desmat.ok THEN f.desmat.layer ELSE EmptyGDF,
       IF f.mun.ok THEN f.mun.layer ELSE EmptyGDF >>
ReadShapefiles(f) ==
    IF f.desmat.ok /\ f.mun.ok
    THEN <<f.desmat.layer, f.mun.layer>>
    ELSE <<EmptyGDF, EmptyGDF>>

Load ==
    /\ pc = "load"
    /\ gdf_desmat' = ReadShapefiles(files)[1]
    /\ gdf_mun' = ReadShapefiles(files)[2]
    /\ pc' = "filter"
    /\ UNCHANGED <<files, ipsFile, gdf_inter, df_pivot, anos, bronzeCsv, df,
                   silverCsv, data_norm, X, dash_pc, year_cols>>

\* ------------------------------------- 3. geospatial processing (54-73)
\* DataFrame.empty: an axis of length 0.
IsEmpty(gdf) == gdf.cols = {} \/ Len(gdf.rows) = 0

\* Lines 54-55: keep the records of Para when there is a state column.
FilterState(gdf) ==
    IF "state" \in gdf.cols
    THEN [gdf EXCEPT !.rows = SelectSeq(gdf.rows, LAMBDA r : r.state = "PA")]
    ELSE gdf

FilterPA ==
    /\ pc = "filter"
    /\ gdf_desmat' = FilterState(gdf_desmat)
    /\ pc' = "crs"
    /\ UNCHANGED <<files, ipsFile, gdf_mun, gdf_inter, df_pivot, anos, bronzeCsv,
                   df, silverCsv, data_norm, X, dash_pc, year_cols>>

\* Line 58: the condition under which the municipal layer is reprojected.
NeedsReprojectionAlways(d, m) == d.crs # m.crs
NeedsReprojection(d, m) == ~IsEmpty(d) /\ ~IsEmpty(m) /\ d.crs # m.crs

\* Line 59: GeoDataFrame.to_crs.
ToCrs(gdf, crs) ==
    [gdf EXCEPT !.crs = crs,
                !.rows = [i \in 1..Len(gdf.rows) |->
                            [gdf.rows[i] EXCEPT !.geometry =
                                Reproject(gdf.rows[i].geometry, gdf.crs, crs)]]]

\* to_crs raises ValueError on a layer without CRS and on a target of None.
AdjustCRS ==
    /\ pc = "crs"
    /\ IF NeedsReprojection(gdf_desmat, gdf_mun)
       THEN IF gdf_desmat.crs = NoCRS \/ gdf_mun.crs = NoCRS
            THEN pc' = "error" /\ UNCHANGED gdf_mun
            ELSE pc' = "fields" /\ gdf_mun' = ToCrs(gdf_mun, gdf_desmat.crs)
       ELSE pc' = "fields" /\ UNCHANGED gdf_mun
    /\ UNCHANGED <<files, ipsFile, gdf_desmat, gdf_inter, df_pivot, anos,
                   bronzeCsv, df, silverCsv, data_norm, X, dash_pc, year_cols>>

\* Lines 62-63: rename uuid to id_desmat when present.
RenameUuid(cols) ==
    IF "uuid" \in cols THEN (cols \ {"uuid"}) \cup {"id_desmat"} ELSE cols

DesmatFields == {"id_desmat", "year", "area_km", "geometry"}
MunFields == {"CD_MUN", "NM_MUN", "geometry"}

\* Lines 64-65: df[[...]] raises KeyError when a listed column is missing.
SelectFieldsOk(d, m) == DesmatFields \subseteq RenameUuid(d.cols) /\ MunFields \subseteq m.cols

SelectFields ==
    /\ pc = "fields"
    /\ IF SelectFieldsOk(gdf_desmat, gdf_mun)
       THEN /\ gdf_desmat' = [gdf_desmat EXCEPT !.cols = DesmatFields]
            /\ gdf_mun' = [gdf_mun EXCEPT !.cols = MunFields]
            /\ pc' = "buffer"
       ELSE /\ pc' = "error"
            /\ UNCHANGED <<gdf_desmat, gdf_mun>>
    /\ UNCHANGED <<files, ipsFile, gdf_inter, df_pivot, anos, bronzeCsv, df,
                   silverCsv, data_norm, X, dash_pc, year_cols>>

\* Lines 68-69.
BufferAll(gdf) ==
    [gdf EXCEPT !.rows = [i \in 1..Len(gdf.rows) |->
        [gdf.rows[i] EXCEPT !.geometry = Buffer0(gdf.rows[i].geometry)]]]

FixGeometries ==
    /\ pc = "buffer"
    /\ gdf_desmat' = BufferAll(gdf_desmat)
    /\ gdf_mun' = BufferAll(gdf_mun)
    /\ pc' = "overlay"
    /\ UNCHANGED <<files, ipsFile, gdf_inter, df_pivot, anos, bronzeCsv, df,
                   silverCsv, data_norm, X, dash_pc, year_cols>>

\* Line 72, gpd.overlay(how='intersection'): one record per pair of a
\* deforestation polygon and a municipal polygon whose intersection is not
\* empty, with the attributes of both and the intersection as geometry.
OverlayOnePerPolygon(d, m) ==
    Flatten([i \in 1..Len(d.rows) |->
        LET hits == SelectSeq(m.rows,
                        LAMBDA r : d.rows[i].geometry \cap r.geometry # {})
        IN  IF hits = <<>> THEN <<>>
            ELSE <<[id_desmat |-> d.rows[i].id_desmat, year |-> d.rows[i].year,
                    CD_MUN |-> hits[1].CD_MUN, NM_MUN |-> hits[1].NM_MUN,
                    geometry |-> d.rows[i].geometry \cap hits[1].geometry]>>])
OverlayIntersection(d, m) ==
    Flatten([i \in 1..Len(d.rows) |->
        LET hits == SelectSeq(m.rows,
                        LAMBDA r : d.rows[i].geometry \cap r.geometry # {})
        IN  [j \in 1..Len(hits) |->
                [id_desmat |-> d.rows[i].id_desmat, year |-> d.rows[i].year,
                 CD_MUN |-> hits[j].CD_MUN, NM_MUN |-> hits[j].NM_MUN,
                 geometry |-> d.rows[i].geometry \cap hits[j].geometry]]])

\* Line 73: area of each record in EPSG:5880, m2 to km2.
AreaKm2(geom, crs) == AreaM2(Reproject(geom, crs, "EPSG:5880")) \div SqMPerKm2

\* to_crs raises ValueError when the overlay result has no CRS.
Overlay ==
    /\ pc = "overlay"
    /\ IF gdf_desmat.crs = NoCRS
       THEN pc' = "error" /\ UNCHANGED gdf_inter
       ELSE /\ gdf_inter' =
                 LET recs == OverlayIntersection(gdf_desmat, gdf_mun)
                 IN  [i \in 1..Len(recs) |->
                        [id_desmat |-> recs[i].id_desmat, year |-> recs[i].year,
                         CD_MUN |-> recs[i].CD_MUN, NM_MUN |-> recs[i].NM_MUN,
                         area_km2 |-> AreaKm2(recs[i].geometry, gdf_desmat.crs)]]
            /\ pc' = "aggregate"
    /\ UNCHANGED <<files, ipsFile, gdf_desmat, gdf_mun, df_pivot, anos, bronzeCsv,
                   df, silverCsv, data_norm, X, dash_pc, year_cols>>

\* ------------------------------------------ 4. aggregation (lines 82-103)
FAdd(a, b) == FSub(a, Neg(b))
RECURSIVE FSum(_)
FSum(s) == IF s = <<>> THEN Zero ELSE FAdd(s[1], FSum(Tail(s)))

\* Order of a (CD_MUN, NM_MUN, year) key in a sorted group-by.
KeyRank(k) == CodeRank(k[1]) * 10000 + k[3]

\* Lines 82-87: groupby(['CD_MUN','NM_MUN','year'])['area_km2'].sum(), one
\* row per key that occurs, in key order.
GroupFirst(recs) ==
    LET keys == {<<recs[i].CD_MUN, recs[i].NM_MUN, recs[i].year>> : i \in 1..Len(recs)}
        rank == SortInts({KeyRank(k) : k \in keys})
    IN  [i \in 1..Len(rank) |->
            LET k == CHOOSE q \in keys : KeyRank(q) = rank[i]
                first == SelectSeq(recs, LAMBDA r : <<r.CD_MUN, r.NM_MUN, r.year>> = k)[1]
            IN  [CD_MUN |-> k[1], NM_MUN |-> k[2], year |-> k[3],
                 area_km2 |-> FInt(first.area_km2)]]
GroupSum(recs) ==
    LET keys == {<<recs[i].CD_MUN, recs[i].NM_MUN, recs[i].year>> : i \in 1..Len(recs)}
        rank == SortInts({KeyRank(k) : k \in keys})
    IN  [i \in 1..Len(rank) |->
            LET k == CHOOSE q \in keys : KeyRank(q) = rank[i]
                grp == SelectSeq(recs, LAMBDA r : <<r.CD_MUN, r.NM_MUN, r.year>> = k)
            IN  [CD_MUN |-> k[1], NM_MUN |-> k[2], year |-> k[3],
                 area_km2 |-> FSum([j \in 1..Len(grp) |-> FInt(grp[j].area_km2)])]]

\* Lines 88-97: pivot_table(index=['CD_MUN','NM_MUN'], columns='year',
\* values='area_km2', fill_value=0).reset_index().  The default aggfunc is
\* the mean of the entries of a cell; a cell without entry is filled with 0.
PivotCell(df_ano, code, name, y) ==
    LET es == SelectSeq(df_ano,
                  LAMBDA r : r.CD_MUN = code /\ r.NM_MUN = name /\ r.year = y)
    IN  IF es = <<>> THEN Zero
        ELSE FDiv(FSum([j \in 1..Len(es) |-> es[j].area_km2]), FInt(Len(es)))

PivotTable(df_ano, ydtype) ==
    LET idx == {<<df_ano[i].CD_MUN, df_ano[i].NM_MUN>> : i \in 1..Len(df_ano)}
        rank == SortInts({CodeRank(k[1]) : k \in idx})
        years == SortInts({df_ano[i].year : i \in 1..Len(df_ano)})
    IN  [columns |-> <<StrLabel(CD_MUN), StrLabel(NM_MUN)>>
                        \o [j \in 1..Len(years) |-> YearLabel(ydtype, years[j])],
         rows |-> [i \in 1..Len(rank) |->
                     LET k == CHOOSE q \in idx : CodeRank(q[1]) = rank[i]
                     IN  [CD_MUN |-> k[1], NM_MUN |-> k[2],
                          cells |-> [y \in Range(years) |->
                                        PivotCell(df_ano, k[1], k[2], y)],
                          total_km2 |-> Zero]]]

\* Line 98: the columns whose str() is made of digits only.
DetectAnos(columns) == SelectSeq(columns, LAMBDA c : IsDigit(PyStr(c)))

\* Line 99: df_pivot[anos].sum(axis=1).
RowTotal(row, as) == FSum([j \in 1..Len(as) |-> row.cells[as[j].v]])

\* Line 103, to_csv: the header is str() of each column label.
ToCsv(table) ==
    [written |-> TRUE,
     header |-> [j \in 1..Len(table.columns) |-> PyStr(table.columns[j])],
     rows |-> [i \in 1..Len(table.rows) |->
                 LET r == table.rows[i]
                     ycols == SelectSeq(table.columns, LAMBDA c : c.t # "str")
                 IN  [CD_MUN |-> r.CD_MUN, NM_MUN |-> r.NM_MUN,
                      cells |-> [h \in {PyStr(c) : c \in Range(ycols)} |->
                                   r.cells[(CHOOSE c \in Range(ycols) : PyStr(c) = h).v]],
                      total_km2 |-> r.total_km2]]]

Aggregate ==
    /\ pc = "aggregate"
    /\ LET pivot == PivotTable(GroupSum(gdf_inter), gdf_desmat.ydtype)
           as == DetectAnos(pivot.columns)
           table == [columns |-> pivot.columns \o <<StrLabel(total_km2)>>,
                     rows |-> [i \in 1..Len(pivot.rows) |->
                                 [pivot.rows[i] EXCEPT
                                     !.total_km2 = RowTotal(pivot.rows[i], as)]]]
       IN  /\ anos' = as
           /\ df_pivot' = table
           /\ bronzeCsv' = ToCsv(table)
    /\ pc' = "join"
    /\ UNCHANGED <<files, ipsFile, gdf_desmat, gdf_mun, gdf_inter, df, silverCsv,
                   data_norm, X, dash_pc, year_cols>>

\* ------------------------------- 5. socioeconomic join (lines 110-122)
UF == <<"U","F">>
\* The indicator columns, and the columns the indicator table adds to Silver
\* (its area column under the name line 119 gives it).
IndicatorCols == <<PIB, IPS, NHB, FBE, OPO>>
IpsCols == <<UF, area_municipio_km2>> \o IndicatorCols
NullIndicators == [c \in Range(IndicatorCols) |-> NaN]

\* Line 120.
Proportion(total, area) == FDiv(total, area)

\* Line 118: desmat.merge(ips, on="CD_MUN", how="left"): every left row in
\* order, once per right row with its key, once with nulls when there is none.
MergeFirstMatch(left, right) ==
    Flatten([i \in 1..Len(left) |->
        LET ms == SelectSeq(right, LAMBDA r : r.CD_MUN = left[i].CD_MUN)
        IN  IF ms = <<>>
            THEN <<[l |-> left[i], area |-> NaN, ind |-> NullIndicators]>>
            ELSE <<[l |-> left[i], area |-> ms[1].area, ind |-> ms[1].ind]>>])
MergeLeft(left, right) ==
    Flatten([i \in 1..Len(left) |->
        LET ms == SelectSeq(right, LAMBDA r : r.CD_MUN = left[i].CD_MUN)
        IN  IF ms = <<>>
            THEN <<[l |-> left[i], area |-> NaN, ind |-> NullIndicators]>>
            ELSE [j \in 1..Len(ms) |->
                    [l |-> left[i], area |-> ms[j].area, ind |-> ms[j].ind]]])

JoinSilver ==
    /\ pc = "join"
    /\ LET m == MergeLeft(bronzeCsv.rows, ipsFile)
           table ==
             [columns |-> bronzeCsv.header \o IpsCols \o <<desmat_prop>>,
              rows |-> [i \in 1..Len(m) |->
                          [CD_MUN |-> m[i].l.CD_MUN, NM_MUN |-> m[i].l.NM_MUN,
                           cells |-> m[i].l.cells,
                           total_km2 |-> m[i].l.total_km2,
                           area_municipio_km2 |-> m[i].area,
                           ind |-> m[i].ind,
                           desmat_prop |-> Proportion(m[i].l.total_km2, m[i].area)]]]
       IN  /\ df' = table
           /\ silverCsv' = [written |-> TRUE, header |-> table.columns, rows |-> <<>>]
    /\ pc' = "summarize"
    /\ UNCHANGED <<files, ipsFile, gdf_desmat, gdf_mun, gdf_inter, df_pivot, anos,
                   bronzeCsv, data_norm, X, dash_pc, year_cols>>

\* ---------------------------------- 6. correlation and PCA (129-144)
cols == <<desmat_prop>> \o IndicatorCols

\* df[c] of a Silver row.
Value(row, c) == IF c = desmat_prop THEN row.desmat_prop ELSE row.ind[c]

\* Line 137: (df[cols] - df[cols].min()) / (df[cols].max() - df[cols].min()),
\* one sequence of Len(cols) values per row.
MinMax(rows) ==
    [i \in 1..Len(rows) |-> [j \in 1..Len(cols) |->
        LET vals == [q \in 1..Len(rows) |-> Value(rows[q], cols[j])]
        IN  FDiv(FSub(vals[i], ColMin(vals)),
                 FSub(ColMax(vals), ColMin(vals)))]]

\* Line 143: DataFrame.dropna(): the rows without any null.
DropNa(norm) == SelectSeq(norm, LAMBDA r : \A j \in 1..Len(r) : ~IsNull(r[j]))

\* Lines 142-144: StandardScaler raises ValueError on an array without rows,
\* PCA(n_components=2) on an array with fewer than n_components rows.
n_components == 2

Summarize ==
    /\ pc = "summarize"
    /\ data_norm' = MinMax(df.rows)
    /\ X' = DropNa(data_norm')
    /\ pc' = IF Len(X') < n_components THEN "error" ELSE "done"
    /\ UNCHANGED <<files, ipsFile, gdf_desmat, gdf_mun, gdf_inter, df_pivot, anos,
                   bronzeCsv, df, silverCsv, dash_pc, year_cols>>

\* ------------------------------------ dashboard (app_dash.py, 15-38)
\* float(x) of a column name that matches the year pattern.
ParseYear(s) == LET dg(ch) == CHOOSE i \in 0..9 : DigitChar(i) = ch
                IN  dg(s[1]) * 1000 + dg(s[2]) * 100 + dg(s[3]) * 10 + dg(s[4])

\* Lines 35-36: the column names that match, sorted by their float value.
YearCols(columns) ==
    LET ms == SelectSeq(columns, MatchYearPattern)
        vs == SortInts({ParseYear(c) : c \in Range(ms)})
    IN  [i \in 1..Len(vs) |-> CHOOSE c \in Range(ms) : ParseYear(c) = vs[i]]

\* The dashboard reads the Silver file once the pipeline has written it.
Dashboard ==
    /\ dash_pc = "start"
    /\ silverCsv.written
    /\ year_cols' = YearCols(silverCsv.header)
    /\ dash_pc' = "ready"
    /\ UNCHANGED <<pc, files, ipsFile, gdf_desmat, gdf_mun, gdf_inter, df_pivot,
                   anos, bronzeCsv, df, silverCsv, data_norm, X>>

Next ==
    \/ Load
    \/ FilterPA
    \/ AdjustCRS
    \/ SelectFields
    \/ FixGeometries
    \/ Overlay
    \/ Aggregate
    \/ JoinSilver
    \/ Summarize
    \/ Dashboard

\* ------------------------------------------------------------ the inputs
Years == {2019, 2020}
Geoms == {{1}, {2}, {2, 3}, {4}}
Polygons(States) == [state : States, year : Years, cells : Geoms]

\* One complete row of indicators per municipality.
IndVec(a, b) == [c \in Range(IndicatorCols) |-> IF c = PIB THEN a ELSE b]
IpsDefault ==
    << [CD_MUN |-> "1500107", area |-> FInt(10), ind |-> IndVec(FInt(1), FInt(2))],
       [CD_MUN |-> "1500131", area |-> FInt(4), ind |-> IndVec(FInt(2), FInt(1))] >>

\* Deforestation layers of up to MaxDesmat polygons of Para with int or float
\* years, over every municipal layer in either CRS; both files parse.
WideLayers ==
    {[desmat |-> [ok |-> TRUE,
                  layer |-> DesmatLayer("EPSG:4674", yd, "uuid", TRUE, ps)],
      mun |-> [ok |-> TRUE, layer |-> MunLayer(mc, idx)]] :
        yd \in {"int", "float"}, ps \in SeqsUpTo(Polygons({"PA"}), MaxDesmat),
        mc \in {"EPSG:4674", "EPSG:4326"}, idx \in {<<>>, <<1>>, <<2>>, <<1, 2>>}}

\* Files that parse or not, with any CRS or none, with either identifier
\* column, with and without state column, over a few small layers.
SmallPolys ==
    { <<>>,
      <<[state |-> "PA", year |-> 2020, cells |-> {2, 3}]>>,
      <<[state |-> "AM", year |-> 2020, cells |-> {1}]>>,
      <<[state |-> "AM", year |-> 2019, cells |-> {4}],
        [state |-> "PA", year |-> 2020, cells |-> {1}]>> }
LoadCases ==
    {[desmat |-> [ok |-> dok, layer |-> DesmatLayer(dc, "int", idc, hs, ps)],
      mun |-> [ok |-> mok, layer |-> MunLayer(mc, idx)]] :
        dok \in BOOLEAN, mok \in BOOLEAN,
        dc \in {"EPSG:4674", "EPSG:4326", NoCRS},
        mc \in {"EPSG:4674", "EPSG:4326", NoCRS},
        idc \in {"uuid", "id_desmat"}, hs \in BOOLEAN,
        ps \in SmallPolys, idx \in {<<>>, <<1>>, <<1, 2>>}}

\* Two deforestation layers over both municipalities, and every indicator
\* table of up to MaxIps rows.
SilverLayers ==
    {[desmat |-> [ok |-> TRUE,
                  layer |-> DesmatLayer("EPSG:4674", yd, "uuid", TRUE, ps)],
      mun |-> [ok |-> TRUE, layer |-> MunLayer("EPSG:4674", <<1, 2>>)]] :
        yd \in {"int", "float"},
        ps \in { <<[state |-> "PA", year |-> 2020, cells |-> {1}],
                   [state |-> "PA", year |-> 2020, cells |-> {2, 3}]>>,
                 <<[state |-> "PA", year |-> 2019, cells |-> {2}]>> }}
IpsRows ==
    [CD_MUN : Codes, area : {Zero, FInt(4)},
     ind : {IndVec(FInt(1), FInt(1)), IndVec(FInt(2), FInt(3)), IndVec(NaN, FInt(1))}]
IpsTables == SeqsUpTo(IpsRows, MaxIps)

Init == InitWith(WideLayers, {IpsDefault})
InitLoad == InitWith(LoadCases, {IpsDefault})
InitSilver == InitWith(SilverLayers, IpsTables)

Spec == Init /\ [][Next]_vars
SpecLoad == InitLoad /\ [][Next]_vars
SpecSilver == InitSilver /\ [][Next]_vars

\* ================================================================ claims
\* Helpers of the statements below.
Count(seq, P(_)) == Len(SelectSeq(seq, P))
AggregateDone == bronzeCsv.written
OverlayDone == pc \in {"aggregate", "join", "summarize", "done"} \/ bronzeCsv.written
JoinDone == silverCsv.written
SummarizeDone == silverCsv.written /\ pc \in {"done", "error"}

\* The labels of the columns the pivot created from year values.
PivotYearCols == SelectSeq(df_pivot.columns, LAMBDA c : c.t # "str")

\* Sum of the intersection areas of the records of one municipality and year.
RECURSIVE AreaOf(_, _, _, _)
AreaOf(recs, code, name, y) ==
    IF recs = <<>> THEN 0
    ELSE (IF recs[1].CD_MUN = code /\ recs[1].NM_MUN = name /\ recs[1].year = y
          THEN recs[1].area_km2 ELSE 0) + AreaOf(Tail(recs), code, name, y)

\* The ground cells a geometry of a layer in CRS crs covers.
Ground(geom, crs) == {c - CrsOffset(crs) : c \in geom}

\* C1: after the Aggregator ran, total_km2 of every Bronze row is the sum of
\* all the year columns the pivot created for that row, whatever the type of
\* the year labels.
C1_TotalIsSumOfYearColumns ==
    AggregateDone =>
        \A i \in 1..Len(df_pivot.rows) :
            LET r == df_pivot.rows[i]
            IN  r.total_km2 =
                  FSum([j \in 1..Len(PivotYearCols) |-> r.cells[PivotYearCols[j].v]])

\* C2: when the municipal boundary file does not parse, no stage up to the
\* export of Bronze aborts, and the exported Bronze table is empty.
C2_LoadFailureYieldsEmptyBronze ==
    ~files.mun.ok =>
        /\ ~(pc = "error" /\ ~bronzeCsv.written)
        /\ OverlayDone => gdf_inter = <<>>
        /\ bronzeCsv.written => bronzeCsv.rows = <<>>

\* C3: right after the Layer Loader, each layer is the parsed file when its
\* own file parses and the empty layer when its own file does not.
C3_PerSourceFallback ==
    pc = "filter" =>
        /\ gdf_desmat = (IF files.desmat.ok THEN files.desmat.layer ELSE EmptyGDF)
        /\ gdf_mun = (IF files.mun.ok THEN files.mun.layer ELSE EmptyGDF)

\* C3 (amended): right after the Layer Loader, both layers are the parsed
\* files when both files parse, and both are empty layers as soon as either
\* file fails to parse.
C3_BothOrNeither ==
    pc = "filter" =>
        IF files.desmat.ok /\ files.mun.ok
        THEN gdf_desmat = files.desmat.layer /\ gdf_mun = files.mun.layer
        ELSE gdf_desmat = EmptyGDF /\ gdf_mun = EmptyGDF

\* A parsed, non-empty deforestation layer was replaced by the empty layer
\* because the municipal file failed.
C3_Witness ==
    /\ pc = "filter"
    /\ files.desmat.ok /\ ~files.mun.ok
    /\ Len(files.desmat.layer.rows) > 0
    /\ gdf_desmat = EmptyGDF

\* C4: every municipality code of Bronze is in exactly one row of Silver,
\* whatever the indicator table holds for it.
C4_ExactlyOneSilverRowPerCode ==
    JoinDone =>
        \A i \in 1..Len(bronzeCsv.rows) :
            Count(df.rows, LAMBDA r : r.CD_MUN = bronzeCsv.rows[i].CD_MUN) = 1

\* C4 (amended): a Bronze row whose code has k rows in the indicator table
\* is in exactly max(1, k) rows of Silver (so exactly one when the indicator
\* table has at most one row per code); each of these rows carries the area
\* and indicators of a row of the indicator table with that code, and nulls
\* when there is none; Silver has no other row.
C4_LeftJoinRowCount ==
    JoinDone =>
        /\ \A i \in 1..Len(bronzeCsv.rows) :
             LET code == bronzeCsv.rows[i].CD_MUN
                 k == Count(ipsFile, LAMBDA q : q.CD_MUN = code)
             IN  Count(df.rows, LAMBDA r : r.CD_MUN = code) = (IF k = 0 THEN 1 ELSE k)
        /\ \A i \in 1..Len(df.rows) :
             LET r == df.rows[i]
             IN  /\ \E j \in 1..Len(bronzeCsv.rows) :
                       /\ bronzeCsv.rows[j].CD_MUN = r.CD_MUN
                       /\ bronzeCsv.rows[j].total_km2 = r.total_km2
                 /\ IF \E j \in 1..Len(ipsFile) : ipsFile[j].CD_MUN = r.CD_MUN
                    THEN \E j \in 1..Len(ipsFile) :
                            /\ ipsFile[j].CD_MUN = r.CD_MUN
                            /\ ipsFile[j].area = r.area_municipio_km2
                            /\ ipsFile[j].ind = r.ind
                    ELSE /\ IsNull(r.area_municipio_km2)
                         /\ \A c \in Range(IndicatorCols) : IsNull(r.ind[c])

\* Silver holds a municipality twice, for the two rows the indicator table
\* has for it, and another one once with null indicators.
C4_Witness ==
    /\ JoinDone
    /\ \E i, j \in 1..Len(df.rows) :
          /\ Count(df.rows, LAMBDA r : r.CD_MUN = df.rows[i].CD_MUN) = 2
          /\ Count(ipsFile, LAMBDA q : q.CD_MUN = df.rows[i].CD_MUN) = 2
          /\ Count(ipsFile, LAMBDA q : q.CD_MUN = df.rows[j].CD_MUN) = 0
          /\ IsNull(df.rows[j].ind[PIB])

\* C5: the proportion of every Silver row is total / area when the area is
\* present and not zero, and null otherwise, also when the total is above 0.
C5_ProportionNullOnZeroArea ==
    JoinDone =>
        \A i \in 1..Len(df.rows) :
            LET r == df.rows[i]
                a == r.area_municipio_km2
                t == r.total_km2
            IN  IF a.k = "num" /\ a.n > 0
                THEN r.desmat_prop = Num(t.n * a.d, t.d * a.n)
                ELSE IsNull(r.desmat_prop)

\* C6: Bronze has exactly one row per (code, name) of the Intersection
\* Records, one year column per distinct year of the records, and every
\* year cell is the sum of the areas of the records of that municipality and
\* year (so 0 when there is none).
C6_BronzeCellsAreSums ==
    AggregateDone =>
        LET keys == {<<gdf_inter[i].CD_MUN, gdf_inter[i].NM_MUN>> : i \in 1..Len(gdf_inter)}
            years == {gdf_inter[i].year : i \in 1..Len(gdf_inter)}
        IN  /\ {<<df_pivot.rows[i].CD_MUN, df_pivot.rows[i].NM_MUN>> :
                   i \in 1..Len(df_pivot.rows)} = keys
            /\ Len(df_pivot.rows) = Cardinality(keys)
            /\ {c.v : c \in Range(PivotYearCols)} = years
            /\ Len(PivotYearCols) = Cardinality(years)
            /\ \A i \in 1..Len(df_pivot.rows) :
                 LET r == df_pivot.rows[i]
                 IN  /\ DOMAIN r.cells = years
                     /\ \A y \in years :
                          r.cells[y] = FInt(AreaOf(gdf_inter, r.CD_MUN, r.NM_MUN, y))

\* Scenario 1: two records of 3 and 2 km2 of one municipality in 2020 give
\* one row with a 2020 cell of 5 (and, with int years, a total of 5).
C6_Witness ==
    /\ AggregateDone
    /\ Len(gdf_inter) = 2
    /\ gdf_inter[1].area_km2 = 3 /\ gdf_inter[2].area_km2 = 2
    /\ gdf_inter[1].CD_MUN = gdf_inter[2].CD_MUN
    /\ gdf_inter[1].year = 2020 /\ gdf_inter[2].year = 2020
    /\ Len(df_pivot.rows) = 1
    /\ df_pivot.rows[1].cells[2020] = FInt(5)
    /\ df_pivot.rows[1].total_km2 = FInt(5)

\* C7: the overlay holds exactly one record per pair of a deforestation
\* polygon and a municipality that share ground, and none for a pair that
\* does not (so k records for a polygon over k municipalities and none for a
\* polygon outside every municipality); all of them are summed into Bronze.
C7_OneRecordPerOverlappingPair ==
    OverlayDone =>
        LET overlap(d, m) == Ground(d.geometry, gdf_desmat.crs)
                               \cap Ground(m.geometry, files.mun.layer.crs)
            dm == files.mun.layer.rows
            pairs == {<<i, j>> \in (1..Len(gdf_desmat.rows)) \X (1..Len(dm)) :
                         overlap(gdf_desmat.rows[i], dm[j]) # {}}
        IN  /\ \A i \in 1..Len(gdf_desmat.rows), j \in 1..Len(dm) :
                 Count(gdf_inter,
                       LAMBDA r : r.id_desmat = gdf_desmat.rows[i].id_desmat
                                  /\ r.CD_MUN = dm[j].CD_MUN)
                   = (IF <<i, j>> \in pairs THEN 1 ELSE 0)
            /\ Len(gdf_inter) = Cardinality(pairs)
            /\ AggregateDone =>
                 FSum(Flatten([i \in 1..Len(df_pivot.rows) |->
                        [j \in 1..Len(PivotYearCols) |->
                            df_pivot.rows[i].cells[PivotYearCols[j].v]]]))
                   = FInt(SeqSum([i \in 1..Len(gdf_inter) |-> gdf_inter[i].area_km2]))

\* A polygon over two municipalities gave two records, a polygon outside
\* every municipality none, and Bronze was written.
C7_Witness ==
    /\ AggregateDone
    /\ Len(gdf_desmat.rows) = 2
    /\ Len(gdf_mun.rows) = 2
    /\ Count(gdf_inter, LAMBDA r : r.id_desmat = 1) = 2
    /\ Count(gdf_inter, LAMBDA r : r.id_desmat = 2) = 0
    /\ Ground(gdf_desmat.rows[2].geometry, gdf_desmat.crs) = {4}

\* C8: the columns the dashboard takes for year columns are the columns the
\* Aggregator took for year columns and summed into the total.
C8_DashboardYearColsAreAnos ==
    dash_pc = "ready" =>
        Range(year_cols) = {PyStr(a) : a \in Range(anos)}

\* C9 (the CRS step): the CRS step reprojects the municipal layer to the CRS of the
\* deforestation layer exactly when both layers are non-empty and their CRSs
\* differ (and raises instead when one of the two has no CRS at all), and
\* leaves it alone otherwise; no step after the load changes the CRS of the
\* deforestation layer; two non-empty layers reach the overlay in one CRS.
C9_StepReprojects ==
    pc = "crs" =>
        /\ gdf_desmat' = gdf_desmat
        /\ IF Len(gdf_desmat.rows) > 0 /\ Len(gdf_mun.rows) > 0
              /\ gdf_desmat.crs # gdf_mun.crs
           THEN \/ pc' = "error" /\ NoCRS \in {gdf_desmat.crs, gdf_mun.crs}
                \/ /\ pc' = "fields"
                   /\ gdf_mun'.crs = gdf_desmat.crs
                   /\ gdf_mun.crs # NoCRS
                   /\ Len(gdf_mun'.rows) = Len(gdf_mun.rows)
                   /\ \A i \in 1..Len(gdf_mun.rows) :
                        Ground(gdf_mun'.rows[i].geometry, gdf_mun'.crs)
                          = Ground(gdf_mun.rows[i].geometry, gdf_mun.crs)
           ELSE pc' = "fields" /\ gdf_mun' = gdf_mun
\* C9, in full: the step above at every CRS step, the CRS of the deforestation
\* layer fixed after the load, and one CRS for two non-empty layers at the overlay.
C9_HarmonizedCRS ==
    /\ [][C9_StepReprojects]_vars
    /\ [][pc # "load" => gdf_desmat'.crs = gdf_desmat.crs]_vars
    /\ [](pc = "overlay" /\ Len(gdf_desmat.rows) > 0 /\ Len(gdf_mun.rows) > 0
            => gdf_desmat.crs = gdf_mun.crs)

\* Two non-empty layers reach the overlay after the municipal layer was
\* reprojected from the CRS of its file to the CRS of the deforestation layer.
C9_Witness ==
    /\ pc = "overlay"
    /\ Len(gdf_desmat.rows) > 0 /\ Len(gdf_mun.rows) > 0
    /\ gdf_mun.crs # files.mun.layer.crs
    /\ gdf_mun.crs = gdf_desmat.crs

\* C10: the rows handed to the PCA are as many as the Silver rows in which
\* every analysis column is non-null.
C10_PcaRowsAreCompleteRows ==
    SummarizeDone =>
        Len(X) = Count(df.rows, LAMBDA r : \A j \in 1..Len(cols) : ~IsNull(Value(r, cols[j])))

====
